---- MODULE Spec2Model ----
(***************************************************************************)
(* Media-upload catalog service (drone-catalog-render).                    *)
(*                                                                         *)
(* Three backend variants share the same four routes over an in-memory     *)
(* metadata index `mediaFiles` and a blob store:                           *)
(*   "local"   src/backend/server.js   lines   1-135 (disk, multer disk)   *)
(*   "cloudfn" src/backend/server.js   lines 137-263 (Cloud Function)      *)
(*   "admin"   src/unnamed/part_000                  (firebase-admin)      *)
(*                                                                         *)
(* Spec runs the handlers one request at a time: every action is one       *)
(* whole request, from the multer middleware to the response, and `reqs`,  *)
(* the requests in flight, stays empty. The specifications of the last     *)
(* part run the handlers concurrently, one step per stretch of code        *)
(* between two awaits.                                                     *)
(***************************************************************************)
EXTENDS Integers, Sequences, FiniteSets, TLC

VARIABLES variant, store, mediaFiles, uuidCount, last, deletedIds, reqs

vars == <<variant, store, mediaFiles, uuidCount, last, deletedIds, reqs>>

(***************************************************************************)
(* Bounds of the model.                                                    *)
(***************************************************************************)
\* uuidv4() is modelled as a counter: the n-th call returns n. No call is
\* made once MaxUuid values were handed out.
MaxUuid == 5
\* The store never holds more than MaxObjects objects.
MaxObjects == 2
\* Objects already in the store when the process starts.
MaxInitObjects == 1
\* Records of the index the update-only specification starts from.
MaxRecords == 2

(***************************************************************************)
(* Program constants.                                                      *)
(***************************************************************************)
MiB == 1024 * 1024
MAX_TOTAL_SIZE == 500 * MiB
FILE_SIZE_LIMIT == 100 * MiB
allowedTypes ==
  {"image/jpeg", "image/png", "video/mp4", "video/webm", "audio/mpeg", "audio/wav"}

Variants == {"local", "cloudfn", "admin"}

(***************************************************************************)
(* JavaScript values. A request field that is absent reads as undefined;   *)
(* JSON booleans of a PUT body are kept apart from the strings "true" and  *)
(* "false" of a multipart POST body.                                       *)
(***************************************************************************)
Undefined == "undefined"
Null == "null"
EmptyStr == ""
JTrue == "json:true"
JFalse == "json:false"

\* JavaScript truthiness of the values above (used by `||`, `&&`, `if`).
Truthy(v) == v \notin {Undefined, Null, EmptyStr, JFalse}

(***************************************************************************)
(* Inputs.                                                                 *)
(***************************************************************************)
PlatformIds == {"P1", "P2"}
OriginalName == "orig"
\* sizes of uploaded files: at the per-file limit and one byte above it
UploadSizes == {100 * MiB, 100 * MiB + 1}
\* sizes of the objects the store may hold when the process starts
InitSizes == {400 * MiB, 500 * MiB}

NoFile == [present |-> FALSE, mimetype |-> "", size |-> 0]
Files ==
  {NoFile, [present |-> TRUE, mimetype |-> "text/plain", size |-> 100 * MiB]} \cup
  {[present |-> TRUE, mimetype |-> "image/jpeg", size |-> s] : s \in UploadSizes}

\* multipart text fields of POST /api/media
PostBodies ==
  [name : {Undefined, "n1"},
   platformId : {Undefined, EmptyStr, "P1"},
   isThumbnail : {Undefined, "true"}]

\* multer rejects a request without reading more of it; the handler reads no
\* field of the body when there is no file
NoBody == [name |-> Undefined, platformId |-> Undefined, isThumbnail |-> Undefined]
BodiesFor(file) ==
  IF file.present /\ file.mimetype \in allowedTypes /\ file.size <= FILE_SIZE_LIMIT
  THEN PostBodies ELSE {NoBody}

\* JSON body of PUT /api/media/:id
PutNames == {Undefined, "n1"}
PutBodies ==
  [name : PutNames,
   platformId : {Undefined, Null, EmptyStr} \cup PlatformIds,
   isThumbnail : {Undefined, JTrue, JFalse}]

\* the PUT bodies Spec draws from: one platform and no renaming, so that the
\* index stays small next to the store; SpecUpdate draws from all of PutBodies
PutBodiesOnePlatform ==
  [name : {Undefined},
   platformId : {Undefined, Null, "P1"},
   isThumbnail : {Undefined, JTrue, JFalse}]

(***************************************************************************)
(* Helpers over the store and the index.                                   *)
(***************************************************************************)
Min(S) == CHOOSE x \in S : \A y \in S : x <= y

\* readdir / bucket.getFiles: the keys of the stored objects, in name order
RECURSIVE Listing(_)
Listing(S) == IF S = {} THEN <<>> ELSE <<Min(S)>> \o Listing(S \ {Min(S)})

RECURSIVE SumSizes(_, _)
SumSizes(st, keys) ==
  IF keys = <<>> THEN 0 ELSE st[Head(keys)].size + SumSizes(st, Tail(keys))

\* total size of the objects of a store
getDirSize(st) == SumSizes(st, Listing(DOMAIN st))

Ids(files) == {files[i].id : i \in 1..Len(files)}

\* Array.prototype.findIndex(f => f.id === id): 0 stands for -1 / undefined
FindIndex(files, id) ==
  IF \E i \in 1..Len(files) : files[i].id = id
  THEN Min({i \in 1..Len(files) : files[i].id = id})
  ELSE 0

\* the :id of a request: the id of a record of the index, or one of none
\* (uuidv4 never returns 0 here)
RequestIds(files) == Ids(files) \cup {0}

Response(op, status, error, id) ==
  [op |-> op, status |-> status, error |-> error, id |-> id]

\* the store with object k added / removed
StorePut(st, k, size, type) ==
  [x \in DOMAIN st \cup {k} |->
     IF x = k THEN [size |-> size, contentType |-> type] ELSE st[x]]
StoreRemove(st, k) == [x \in DOMAIN st \ {k} |-> st[x]]

(***************************************************************************)
(* Initial states: the index is empty, the store holds what earlier        *)
(* processes left in it (at most the ceiling).                             *)
(***************************************************************************)
InitStores ==
  {st \in UNION {[1..n -> [size : InitSizes, contentType : {"image/jpeg"}]]
                  : n \in 0..MaxInitObjects} :
     getDirSize(st) <= MAX_TOTAL_SIZE}

Init ==
  /\ variant \in Variants
  /\ store \in InitStores
  /\ mediaFiles = <<>>
  /\ uuidCount = Cardinality(DOMAIN store)
  /\ last = Response("init", 0, "", 0)
  /\ deletedIds = {}
  /\ reqs = <<>>

(***************************************************************************)
(* multer: upload.single('file') with fileFilter and limits.fileSize.      *)
(***************************************************************************)
\* fault variant of fileFilter: every type is let through
fileFilterAcceptsAll(file) == TRUE

fileFilter(file) == file.mimetype \in allowedTypes


\* the record both POST handlers build: `||` falls back on a falsy field and
\* isThumbnail is the comparison with the string 'true'
NewFile(id, file, body, url) ==
  [id |-> id,
   name |-> IF Truthy(body.name) THEN body.name ELSE OriginalName,
   type |-> file.mimetype,
   url |-> url,
   platformId |-> IF Truthy(body.platformId) THEN body.platformId ELSE Null,
   isThumbnail |-> (body.isThumbnail = "true")]

\* A rejected promise of an async handler that no try/catch covers: Express 4
\* sends no response (status 0), Express 5 answers 500.
UnhandledStatus == {0, 500}

(***************************************************************************)
(* PUT /api/media/:id, the same code in the three variants.                *)
(***************************************************************************)
\* fault variant of updateMedia: the siblings' flags are not cleared
updateMediaNoClear(files, i, body) ==
  LET named == IF Truthy(body.name)
               THEN [files EXCEPT ![i].name = body.name] ELSE files
      placed == IF body.platformId # Undefined
                THEN [named EXCEPT ![i].platformId = body.platformId] ELSE named
  IN IF body.isThumbnail = Undefined THEN placed
     ELSE [placed EXCEPT ![i].isThumbnail =
             Truthy(body.isThumbnail) /\ Truthy(body.platformId)]

\* mediaFiles after the handler ran on the record at position i
updateMedia(files, i, body) ==
  LET id == files[i].id
      named == IF Truthy(body.name)
               THEN [files EXCEPT ![i].name = body.name] ELSE files
      placed == IF body.platformId # Undefined
                THEN [named EXCEPT ![i].platformId = body.platformId] ELSE named
  IN IF body.isThumbnail = Undefined THEN placed
     ELSE IF Truthy(body.isThumbnail) /\ Truthy(body.platformId)
          THEN [j \in 1..Len(placed) |->
                  IF j = i THEN [placed[j] EXCEPT !.isThumbnail = TRUE]
                  ELSE IF placed[j].platformId = body.platformId /\ placed[j].id # id
                       THEN [placed[j] EXCEPT !.isThumbnail = FALSE]
                       ELSE placed[j]]
          ELSE [placed EXCEPT ![i].isThumbnail = FALSE]

PutMedia(id, body) ==
  LET i == FindIndex(mediaFiles, id) IN
  /\ IF i = 0
     THEN /\ last' = Response("PUT", 404, "File not found", 0)
          /\ UNCHANGED mediaFiles
     ELSE /\ mediaFiles' = updateMedia(mediaFiles, i, body)
          /\ last' = Response("PUT", 200, "", id)
  /\ UNCHANGED <<variant, reqs, store, uuidCount, deletedIds>>

(***************************************************************************)
(* Local-disk variant, src/backend/server.js lines 1-135.                  *)
(***************************************************************************)
\* path.basename of the url `/uploads/${filename}`
basename(url) == url.key

GetLocal ==
  /\ variant = "local"
  /\ last' = Response("GET", 200, "", 0)
  /\ UNCHANGED <<variant, reqs, store, mediaFiles, uuidCount, deletedIds>>

LocalPostFails == {"none", "write", "getDirSize", "unlink"}

\* multer.diskStorage writes the file under a fresh name before the handler
\* runs; the handler then measures the directory, the new file included.
PostLocal(file, body, fail) ==
  /\ variant = "local"
  /\ UNCHANGED <<variant, reqs, deletedIds>>
  /\ IF ~file.present
     THEN /\ last' = Response("POST", 400, "No file uploaded", 0)
          /\ UNCHANGED <<store, mediaFiles, uuidCount>>
     ELSE IF ~fileFilter(file)
     THEN /\ last' = Response("POST", 500, "Invalid file type", 0)
          /\ UNCHANGED <<store, mediaFiles, uuidCount>>
     ELSE
       LET key == uuidCount + 1
           id == uuidCount + 2
           written == StorePut(store, key, file.size, file.mimetype)
           currentSize == getDirSize(written)
           newSize == currentSize + file.size
       IN
       /\ id <= MaxUuid
       /\ Cardinality(DOMAIN store) < MaxObjects
       /\ IF file.size > FILE_SIZE_LIMIT
          THEN \* multer aborts and removes the partly written file
               /\ last' = Response("POST", 500, "File too large", 0)
               /\ uuidCount' = key
               /\ UNCHANGED <<store, mediaFiles>>
          ELSE IF fail = "write"
          THEN /\ last' = Response("POST", 500, "write failed", 0)
               /\ uuidCount' = key
               /\ UNCHANGED <<store, mediaFiles>>
          ELSE IF fail = "getDirSize" \/ (newSize > MAX_TOTAL_SIZE /\ fail = "unlink")
          THEN /\ \E st \in UnhandledStatus : last' = Response("POST", st, "unhandled", 0)
               /\ uuidCount' = key
               /\ store' = written
               /\ UNCHANGED mediaFiles
          ELSE IF newSize > MAX_TOTAL_SIZE
          THEN /\ last' = Response("POST", 413, "Total storage capacity exceeded (500MB limit)", 0)
               /\ uuidCount' = key
               /\ store' = StoreRemove(written, key)
               /\ UNCHANGED mediaFiles
          ELSE /\ mediaFiles' =
                    Append(mediaFiles,
                           NewFile(id, file, body, [fmt |-> "uploads", key |-> key]))
               /\ last' = Response("POST", 200, "", id)
               /\ uuidCount' = id
               /\ store' = written

\* fault variant of DeleteLocal: the file is unlinked, the record stays
DeleteLocalKeepsRecord(id, fail) ==
  LET i == FindIndex(mediaFiles, id) IN
  /\ variant = "local"
  /\ UNCHANGED <<variant, reqs, uuidCount, mediaFiles>>
  /\ IF i = 0
     THEN /\ last' = Response("DELETE", 404, "File not found", 0)
          /\ UNCHANGED <<store, deletedIds>>
     ELSE LET key == basename(mediaFiles[i].url) IN
          IF fail \/ key \notin DOMAIN store
          THEN /\ last' = Response("DELETE", 500, "Failed to delete file", id)
               /\ UNCHANGED <<store, deletedIds>>
          ELSE /\ store' = StoreRemove(store, key)
               /\ last' = Response("DELETE", 200, "File deleted", id)
               /\ deletedIds' = deletedIds \cup {id}

DeleteLocal(id, fail) ==
  LET i == FindIndex(mediaFiles, id) IN
  /\ variant = "local"
  /\ UNCHANGED <<variant, reqs, uuidCount>>
  /\ IF i = 0
     THEN /\ last' = Response("DELETE", 404, "File not found", 0)
          /\ UNCHANGED <<store, mediaFiles, deletedIds>>
     ELSE LET key == basename(mediaFiles[i].url) IN
          IF fail \/ key \notin DOMAIN store
          THEN /\ last' = Response("DELETE", 500, "Failed to delete file", id)
               /\ UNCHANGED <<store, mediaFiles, deletedIds>>
          ELSE /\ store' = StoreRemove(store, key)
               /\ mediaFiles' = SelectSeq(mediaFiles, LAMBDA f : f.id # id)
               /\ last' = Response("DELETE", 200, "File deleted", id)
               /\ deletedIds' = deletedIds \cup {id}

(***************************************************************************)
(* Cloud-bucket variants: what the two of them share.                      *)
(***************************************************************************)
\* path.basename(file.name) / metadata.name.split('/').pop()
ObjectName(key) == ToString(key)

\* The record GET builds for the j-th listed object, with the j-th fresh id.
\* Its url is `https://storage.googleapis.com/${bucket.name}/${name}?alt=media`.
ListedRecord(st, keys, j, firstId) ==
  [id |-> firstId + j,
   name |-> ObjectName(keys[j]),
   type |-> st[keys[j]].contentType,
   url |-> [fmt |-> "public", key |-> keys[j]],
   platformId |-> Null,
   isThumbnail |-> FALSE]

\* url.split(bucket.name + '/')[1].split('?')[0]: the object's name for the
\* public url GET builds; for metadata.mediaLink
\* (.../download/storage/v1/b/<bucket>/o/<encoded name>?generation=..) it is
\* "o/<encoded name>", which names no object of the bucket (0 here).
firebasePath(url) == IF url.fmt = "public" THEN url.key ELSE 0

(***************************************************************************)
(* Cloud Function variant, src/backend/server.js lines 137-263.            *)
(***************************************************************************)
GetCloudFn(fail) ==
  LET keys == Listing(DOMAIN store) IN
  /\ variant = "cloudfn"
  /\ UNCHANGED <<variant, reqs, store, deletedIds>>
  /\ IF fail
     THEN /\ last' = Response("GET", 500, "Failed to fetch media", 0)
          /\ UNCHANGED <<mediaFiles, uuidCount>>
     ELSE /\ uuidCount + Len(keys) <= MaxUuid
          /\ mediaFiles' = [j \in 1..Len(keys) |-> ListedRecord(store, keys, j, uuidCount)]
          /\ uuidCount' = uuidCount + Len(keys)
          /\ last' = Response("GET", 200, "", 0)

CloudFnPostFails == {"none", "save", "getMetadata"}

\* no quota check in this variant
PostCloudFn(file, body, fail) ==
  /\ variant = "cloudfn"
  /\ UNCHANGED <<variant, reqs, deletedIds>>
  /\ IF ~file.present
     THEN /\ last' = Response("POST", 400, "No file uploaded", 0)
          /\ UNCHANGED <<store, mediaFiles, uuidCount>>
     ELSE IF ~fileFilter(file)
     THEN /\ last' = Response("POST", 500, "Invalid file type", 0)
          /\ UNCHANGED <<store, mediaFiles, uuidCount>>
     ELSE IF file.size > FILE_SIZE_LIMIT
     THEN /\ last' = Response("POST", 500, "File too large", 0)
          /\ UNCHANGED <<store, mediaFiles, uuidCount>>
     ELSE
       LET key == uuidCount + 1
           id == uuidCount + 2
           written == StorePut(store, key, file.size, file.mimetype)
       IN
       /\ id <= MaxUuid
       /\ Cardinality(DOMAIN store) < MaxObjects
       /\ IF fail = "save"
          THEN /\ last' = Response("POST", 500, "Failed to upload file", 0)
               /\ uuidCount' = key
               /\ UNCHANGED <<store, mediaFiles>>
          ELSE IF fail = "getMetadata"
          THEN /\ last' = Response("POST", 500, "Failed to upload file", 0)
               /\ uuidCount' = key
               /\ store' = written
               /\ UNCHANGED mediaFiles
          ELSE /\ mediaFiles' =
                    Append(mediaFiles,
                           NewFile(id, file, body, [fmt |-> "mediaLink", key |-> key]))
               /\ last' = Response("POST", 200, "", id)
               /\ uuidCount' = id
               /\ store' = written

DeleteCloudFn(id, fail) ==
  LET i == FindIndex(mediaFiles, id) IN
  /\ variant = "cloudfn"
  /\ UNCHANGED <<variant, reqs, uuidCount>>
  /\ IF i = 0
     THEN /\ last' = Response("DELETE", 404, "File not found", 0)
          /\ UNCHANGED <<store, mediaFiles, deletedIds>>
     ELSE LET key == firebasePath(mediaFiles[i].url) IN
          IF fail \/ key \notin DOMAIN store
          THEN /\ last' = Response("DELETE", 500, "Failed to delete file", id)
               /\ UNCHANGED <<store, mediaFiles, deletedIds>>
          ELSE /\ store' = StoreRemove(store, key)
               /\ mediaFiles' = SelectSeq(mediaFiles, LAMBDA f : f.id # id)
               /\ last' = Response("DELETE", 200, "File deleted", id)
               /\ deletedIds' = deletedIds \cup {id}

(***************************************************************************)
(* firebase-admin variant, src/unnamed/part_000.                           *)
(***************************************************************************)
\* the module requires express, multer, cors, uuid and firebase-admin, and
\* not path: evaluating path.extname throws a ReferenceError
pathDefined == FALSE

\* getTotalSize: the sizes of the first `done` listed objects; an error of
\* getFiles or of a getMetadata is caught and the partial total returned
getTotalSize(st, done) == SumSizes(st, SubSeq(Listing(DOMAIN st), 1, done))

AdminGetFails == {"none", "getFiles", "getMetadata"}

\* how many per-object getMetadata calls succeed before the failing one; 0
\* when the failure is elsewhere or there is none
DoneFor(fail) ==
  IF fail \in {"getMetadata", "getTotalSize"} THEN 0..(MaxObjects - 1) ELSE {0}

\* `done` getMetadata calls succeed before the one that fails
GetAdmin(fail, done) ==
  LET keys == Listing(DOMAIN store)
      n == IF fail = "getMetadata" THEN done ELSE Len(keys)
  IN
  /\ variant = "admin"
  /\ UNCHANGED <<variant, reqs, store, deletedIds>>
  /\ IF fail = "getFiles"
     THEN /\ last' = Response("GET", 500, "Failed to fetch media", 0)
          /\ UNCHANGED <<mediaFiles, uuidCount>>
     ELSE /\ fail = "getMetadata" => done < Len(keys)
          /\ uuidCount + n <= MaxUuid
          /\ mediaFiles' = [j \in 1..n |-> ListedRecord(store, keys, j, uuidCount)]
          /\ uuidCount' = uuidCount + n
          /\ last' = IF fail = "none"
                     THEN Response("GET", 200, "", 0)
                     ELSE Response("GET", 500, "Failed to fetch media", 0)

AdminPostFails == {"none", "getTotalSize", "save", "makePublic", "getMetadata"}

PostAdmin(file, body, fail, done) ==
  /\ variant = "admin"
  /\ UNCHANGED <<variant, reqs, deletedIds>>
  /\ IF ~file.present
     THEN /\ last' = Response("POST", 400, "No file uploaded", 0)
          /\ UNCHANGED <<store, mediaFiles, uuidCount>>
     ELSE IF ~fileFilter(file)
     THEN /\ last' = Response("POST", 500, "Invalid file type", 0)
          /\ UNCHANGED <<store, mediaFiles, uuidCount>>
     ELSE IF file.size > FILE_SIZE_LIMIT
     THEN /\ last' = Response("POST", 500, "File too large", 0)
          /\ UNCHANGED <<store, mediaFiles, uuidCount>>
     ELSE
       LET counted == IF fail = "getTotalSize" THEN done ELSE Cardinality(DOMAIN store)
           currentSize == getTotalSize(store, counted)
           newSize == currentSize + file.size
           key == uuidCount + 1
           id == uuidCount + 2
           written == StorePut(store, key, file.size, file.mimetype)
       IN
       /\ fail = "getTotalSize" => done < Cardinality(DOMAIN store)
       /\ IF newSize > MAX_TOTAL_SIZE
          THEN /\ last' = Response("POST", 413, "Total storage capacity exceeded (500MB limit)", 0)
               /\ UNCHANGED <<store, mediaFiles, uuidCount>>
          ELSE /\ id <= MaxUuid
               /\ Cardinality(DOMAIN store) < MaxObjects
               /\ IF ~pathDefined \/ fail = "save"
                  THEN /\ last' = Response("POST", 500, "Failed to upload file", 0)
                       /\ uuidCount' = key
                       /\ UNCHANGED <<store, mediaFiles>>
                  ELSE IF fail \in {"makePublic", "getMetadata"}
                  THEN /\ last' = Response("POST", 500, "Failed to upload file", 0)
                       /\ uuidCount' = key
                       /\ store' = written
                       /\ UNCHANGED mediaFiles
                  ELSE /\ mediaFiles' =
                            Append(mediaFiles,
                                   NewFile(id, file, body, [fmt |-> "mediaLink", key |-> key]))
                       /\ last' = Response("POST", 200, "", id)
                       /\ uuidCount' = id
                       /\ store' = written

DeleteAdmin(id, fail) ==
  LET fileIndex == FindIndex(mediaFiles, id) IN
  /\ variant = "admin"
  /\ UNCHANGED <<variant, reqs, uuidCount>>
  /\ IF fileIndex = 0
     THEN /\ last' = Response("DELETE", 404, "File not found", 0)
          /\ UNCHANGED <<store, mediaFiles, deletedIds>>
     ELSE LET key == firebasePath(mediaFiles[fileIndex].url) IN
          IF fail \/ key \notin DOMAIN store
          THEN /\ last' = Response("DELETE", 500, "Failed to delete file", id)
               /\ UNCHANGED <<store, mediaFiles, deletedIds>>
          ELSE /\ store' = StoreRemove(store, key)
               /\ mediaFiles' = [j \in 1..(Len(mediaFiles) - 1) |->
                                   IF j < fileIndex THEN mediaFiles[j] ELSE mediaFiles[j + 1]]
               /\ last' = Response("DELETE", 200, "File deleted", id)
               /\ deletedIds' = deletedIds \cup {id}

(***************************************************************************)
(* The service: one request at a time.                                     *)
(***************************************************************************)
Next ==
  \/ GetLocal
  \/ \E file \in Files, fail \in LocalPostFails : \E body \in BodiesFor(file) :
       PostLocal(file, body, fail)
  \/ \E id \in RequestIds(mediaFiles), fail \in BOOLEAN : DeleteLocal(id, fail)
  \/ \E fail \in BOOLEAN : GetCloudFn(fail)
  \/ \E file \in Files, fail \in CloudFnPostFails : \E body \in BodiesFor(file) :
       PostCloudFn(file, body, fail)
  \/ \E id \in RequestIds(mediaFiles), fail \in BOOLEAN : DeleteCloudFn(id, fail)
  \/ \E fail \in AdminGetFails : \E done \in DoneFor(fail) : GetAdmin(fail, done)
  \/ \E file \in Files, fail \in AdminPostFails :
       \E done \in DoneFor(fail), body \in BodiesFor(file) :
         PostAdmin(file, body, fail, done)
  \/ \E id \in RequestIds(mediaFiles), fail \in BOOLEAN : DeleteAdmin(id, fail)
  \/ \E id \in RequestIds(mediaFiles), body \in PutBodiesOnePlatform : PutMedia(id, body)

Spec == Init /\ [][Next]_vars

(***************************************************************************)
(* Updates alone: the local-disk service after n uploads of 100 MiB that   *)
(* set no thumbnail flag (the quota check admits four of them), followed   *)
(* by PUT requests only.                                                   *)
(***************************************************************************)
UploadedRecord(i, platformId) ==
  NewFile(2 * i,
          [present |-> TRUE, mimetype |-> "image/jpeg", size |-> FILE_SIZE_LIMIT],
          [name |-> Undefined, platformId |-> platformId, isThumbnail |-> "false"],
          [fmt |-> "uploads", key |-> 2 * i - 1])

InitUpdate ==
  \E n \in 1..MaxRecords : \E ps \in [1..n -> {Undefined} \cup PlatformIds] :
    /\ variant = "local"
    /\ mediaFiles = [i \in 1..n |-> UploadedRecord(i, ps[i])]
    /\ store = [k \in {2 * i - 1 : i \in 1..n} |->
                  [size |-> FILE_SIZE_LIMIT, contentType |-> "image/jpeg"]]
    /\ uuidCount = 2 * n
    /\ last = Response("POST", 200, "", 2 * n)
    /\ deletedIds = {}
    /\ reqs = <<>>

NextUpdate ==
  \E id \in RequestIds(mediaFiles), body \in PutBodies : PutMedia(id, body)

SpecUpdate == InitUpdate /\ [][NextUpdate]_vars

(***************************************************************************)
(* Concurrent requests. Node runs one handler at a time and leaves it only *)
(* at an await or at its end, so every action below is the stretch of code *)
(* a handler runs between two awaits; the awaited store operation takes    *)
(* effect when the handler resumes. reqs[r] holds the local variables of   *)
(* the request in slot r, `last` the latest answer sent; `deletedIds`      *)
(* belongs to Spec and stays as it is.                                     *)
(***************************************************************************)
\* requests in flight at the same time
MaxReqs == 2
\* uuidv4() values handed out to the concurrent requests
MaxConcUuid == 4
\* uploads the local-disk service has admitted, one after the other, before
\* the concurrent requests start
MaxLocalFiles == 4

\* objects in the bucket when the concurrent deletes start
MaxAdminObjects == 3

Slots == 1..MaxReqs

\* the concurrent specifications start the uuid counter above every value
\* their start states use, and stop at UuidLimit
StartUuid == 2 * MaxLocalFiles
UuidLimit == StartUuid + MaxConcUuid

NoReq ==
  [op |-> "none", pc |-> "idle", id |-> 0, body |-> NoBody, size |-> 0,
   key |-> 0, keys |-> <<>>, k |-> 0, total |-> 0, fileIndex |-> 0, status |-> 0]

\* a slot whose request was answered is free for the next request
Free(r) == reqs[r].pc \in {"idle", "done"}

\* a new request takes the first free slot
Takes(r) == Free(r) /\ \A q \in 1..(r - 1) : ~Free(q)

\* the slot of a request after res.json / res.status(..).json: free again;
\* of an upload the usage it computed, the name it drew for its object and
\* its answer are kept
Answered(req, status) ==
  IF req.op = "POST"
  THEN [NoReq EXCEPT !.op = req.op, !.pc = "done", !.key = req.key,
                     !.total = req.total, !.status = status]
  ELSE NoReq

\* the request after a rejection no try/catch covers: answered 500
\* (Express 5) or never answered (Express 4)
Unhandled(req, status) ==
  IF status = 0
  THEN [NoReq EXCEPT !.op = req.op, !.pc = "hung", !.key = req.key]
  ELSE Answered(req, status)

\* the places of a handler where it holds the thread: between two statements
\* with no await in between
SyncPcs == {"cleared"}

\* fault variant of afterForEach: the handler awaits between the forEach and
\* the assignment that follows it
afterForEachAwaits == "awaited"

\* where the PUT handler is between the forEach that clears the other
\* thumbnails and `file.isThumbnail = true`: no await, it holds the thread
afterForEach == "cleared"

\* request r may run: no other handler is in the middle of synchronous code
CanRun(r) == \A q \in Slots \ {r} : reqs[q].pc \notin SyncPcs

UploadedFile(size) == [present |-> TRUE, mimetype |-> "image/jpeg", size |-> size]

(***************************************************************************)
(* Local-disk variant, step by step.                                       *)
(***************************************************************************)
\* src/backend/server.js 75-90, after getDirSize returned `total`
PostLocalCheck(r, total) ==
  LET req == reqs[r]
      newSize == total + req.size
  IN IF newSize > MAX_TOTAL_SIZE
     THEN \* await fs.unlink(...)
          /\ reqs' = [reqs EXCEPT ![r].pc = "unlink", ![r].total = total]
          /\ UNCHANGED <<mediaFiles, last>>
     ELSE /\ mediaFiles' =
               Append(mediaFiles,
                      NewFile(req.id, UploadedFile(req.size), req.body,
                              [fmt |-> "uploads", key |-> req.key]))
          /\ reqs' = [reqs EXCEPT ![r] = Answered([req EXCEPT !.total = total], 200)]
          /\ last' = Response("POST", 200, "", req.id)

\* multer.diskStorage writes the file under a fresh name, then the handler
\* starts and calls getDirSize, which awaits readdir. The two uuidv4() values
\* of the request are drawn here.
PostLocalMulter(r, size) ==
  LET key == uuidCount + 1
      id == uuidCount + 2
  IN
  /\ variant = "local" /\ Takes(r) /\ CanRun(r)
  /\ id <= UuidLimit
  /\ store' = StorePut(store, key, size, "image/jpeg")
  /\ uuidCount' = id
  /\ reqs' = [reqs EXCEPT ![r] =
                [NoReq EXCEPT !.op = "POST", !.pc = "readdir", !.id = id,
                              !.size = size, !.key = key]]
  /\ UNCHANGED <<variant, mediaFiles, last, deletedIds>>

\* readdir resolves with the names in the directory; the loop awaits the
\* stat of the first one
PostLocalReaddir(r) ==
  LET keys == Listing(DOMAIN store) IN
  /\ variant = "local" /\ CanRun(r)
  /\ reqs[r].op = "POST" /\ reqs[r].pc = "readdir"
  /\ IF keys = <<>>
     THEN PostLocalCheck(r, 0)
     ELSE /\ reqs' = [reqs EXCEPT ![r].pc = "stat", ![r].keys = keys, ![r].k = 1]
          /\ UNCHANGED <<mediaFiles, last>>
  /\ UNCHANGED <<variant, store, uuidCount, deletedIds>>

\* the stat of the k-th listed name resolves, or rejects with ENOENT when the
\* file is gone: getDirSize rejects and so does the handler
PostLocalStat(r) ==
  LET req == reqs[r]
      key == req.keys[req.k]
  IN
  /\ variant = "local" /\ CanRun(r)
  /\ req.op = "POST" /\ req.pc = "stat"
  /\ IF key \notin DOMAIN store
     THEN /\ \E st \in UnhandledStatus :
               /\ reqs' = [reqs EXCEPT ![r] = Unhandled(req, st)]
               /\ last' = IF st = 0 THEN last ELSE Response("POST", st, "unhandled", 0)
          /\ UNCHANGED mediaFiles
     ELSE IF req.k < Len(req.keys)
     THEN /\ reqs' = [reqs EXCEPT ![r].k = req.k + 1,
                                  ![r].total = req.total + store[key].size]
          /\ UNCHANGED <<mediaFiles, last>>
     ELSE PostLocalCheck(r, req.total + store[key].size)
  /\ UNCHANGED <<variant, store, uuidCount, deletedIds>>

\* the unlink of the rejected upload's file resolves
PostLocalUnlink(r) ==
  LET req == reqs[r] IN
  /\ variant = "local" /\ CanRun(r)
  /\ req.op = "POST" /\ req.pc = "unlink"
  /\ IF req.key \notin DOMAIN store
     THEN /\ \E st \in UnhandledStatus :
               /\ reqs' = [reqs EXCEPT ![r] = Unhandled(req, st)]
               /\ last' = IF st = 0 THEN last ELSE Response("POST", st, "unhandled", 0)
          /\ UNCHANGED store
     ELSE /\ store' = StoreRemove(store, req.key)
          /\ reqs' = [reqs EXCEPT ![r] = Answered(req, 413)]
          /\ last' = Response("POST", 413, "Total storage capacity exceeded (500MB limit)", 0)
  /\ UNCHANGED <<variant, mediaFiles, uuidCount, deletedIds>>

\* DELETE, up to `await fs.unlink(...)`
DeleteLocalFind(r, id) ==
  LET i == FindIndex(mediaFiles, id) IN
  /\ variant = "local" /\ Takes(r) /\ CanRun(r)
  /\ IF i = 0
     THEN /\ reqs' = [reqs EXCEPT ![r] = Answered([NoReq EXCEPT !.op = "DELETE"], 404)]
          /\ last' = Response("DELETE", 404, "File not found", 0)
     ELSE /\ reqs' = [reqs EXCEPT ![r] =
                        [NoReq EXCEPT !.op = "DELETE", !.pc = "unlink", !.id = id,
                                      !.key = basename(mediaFiles[i].url)]]
          /\ UNCHANGED last
  /\ UNCHANGED <<variant, store, mediaFiles, uuidCount, deletedIds>>

\* the unlink resolves or rejects; after it the filter and the answer
DeleteLocalUnlink(r) ==
  LET req == reqs[r] IN
  /\ variant = "local" /\ CanRun(r)
  /\ req.op = "DELETE" /\ req.pc = "unlink"
  /\ IF req.key \notin DOMAIN store
     THEN /\ reqs' = [reqs EXCEPT ![r] = Answered(req, 500)]
          /\ last' = Response("DELETE", 500, "Failed to delete file", 0)
          /\ UNCHANGED <<store, mediaFiles>>
     ELSE /\ store' = StoreRemove(store, req.key)
          /\ mediaFiles' = SelectSeq(mediaFiles, LAMBDA f : f.id # req.id)
          /\ reqs' = [reqs EXCEPT ![r] = Answered(req, 200)]
          /\ last' = Response("DELETE", 200, "File deleted", 0)
  /\ UNCHANGED <<variant, uuidCount, deletedIds>>

\* the local-disk service after n uploads of 100 MiB, admitted one after the
\* other, and no request in flight; the uuid counter starts above every
\* value the n uploads may have drawn
InitLocal ==
  \E n \in 0..MaxLocalFiles :
    /\ variant = "local"
    /\ mediaFiles = [i \in 1..n |-> UploadedRecord(i, Undefined)]
    /\ store = [k \in {2 * i - 1 : i \in 1..n} |->
                  [size |-> FILE_SIZE_LIMIT, contentType |-> "image/jpeg"]]
    /\ uuidCount = StartUuid
    /\ last = Response("init", 0, "", 0)
    /\ deletedIds = {}
    /\ reqs = [r \in Slots |-> NoReq]

\* a step of the request in slot r
StepLocal(r) ==
  \/ PostLocalReaddir(r)
  \/ PostLocalStat(r)
  \/ PostLocalUnlink(r)
  \/ DeleteLocalUnlink(r)

NextLocal ==
  \/ \E r \in Slots : PostLocalMulter(r, FILE_SIZE_LIMIT)
  \/ \E r \in Slots : PostLocalReaddir(r)
  \/ \E r \in Slots : PostLocalStat(r)
  \/ \E r \in Slots : PostLocalUnlink(r)
  \/ \E r \in Slots : \E id \in RequestIds(mediaFiles) : DeleteLocalFind(r, id)
  \/ \E r \in Slots : DeleteLocalUnlink(r)

SpecLocal == InitLocal /\ [][NextLocal]_vars

\* every request that was started runs on
SpecLocalFair == SpecLocal /\ \A r \in Slots : WF_vars(StepLocal(r))

(***************************************************************************)
(* firebase-admin variant, step by step.                                   *)
(***************************************************************************)
\* src/unnamed/part_000 87-114, after getTotalSize returned `total`: the
\* quota check, then uuidv4() and path.extname, which throws (pathDefined is
\* FALSE), so that file.save is never reached and the catch answers 500
PostAdminCheck(r, total) ==
  LET req == [reqs[r] EXCEPT !.total = total]
      newSize == total + req.size
  IN IF newSize > MAX_TOTAL_SIZE
     THEN /\ reqs' = [reqs EXCEPT ![r] = Answered(req, 413)]
          /\ last' = Response("POST", 413, "Total storage capacity exceeded (500MB limit)", 0)
          /\ UNCHANGED uuidCount
     ELSE /\ ~pathDefined
          /\ uuidCount < UuidLimit
          /\ uuidCount' = uuidCount + 1
          /\ reqs' = [reqs EXCEPT ![r] = Answered([req EXCEPT !.key = uuidCount + 1], 500)]
          /\ last' = Response("POST", 500, "Failed to upload file", 0)

\* multer (memory storage) hands the file over; the handler calls
\* getTotalSize, which awaits bucket.getFiles
PostAdminStart(r, size) ==
  /\ variant = "admin" /\ Takes(r) /\ CanRun(r)
  /\ reqs' = [reqs EXCEPT ![r] =
                [NoReq EXCEPT !.op = "POST", !.pc = "getFiles", !.size = size]]
  /\ UNCHANGED <<variant, store, mediaFiles, uuidCount, last, deletedIds>>

\* getFiles resolves with the objects of the bucket
PostAdminFiles(r) ==
  LET keys == Listing(DOMAIN store) IN
  /\ variant = "admin" /\ CanRun(r)
  /\ reqs[r].op = "POST" /\ reqs[r].pc = "getFiles"
  /\ IF keys = <<>>
     THEN PostAdminCheck(r, 0)
     ELSE /\ reqs' = [reqs EXCEPT ![r].pc = "getMetadata", ![r].keys = keys, ![r].k = 1]
          /\ UNCHANGED <<uuidCount, last>>
  /\ UNCHANGED <<variant, store, mediaFiles, deletedIds>>

\* getMetadata of the k-th listed object resolves; when the object is gone it
\* rejects, the catch of getTotalSize logs it and the sum so far is returned
PostAdminMetadata(r) ==
  LET req == reqs[r]
      key == req.keys[req.k]
  IN
  /\ variant = "admin" /\ CanRun(r)
  /\ req.op = "POST" /\ req.pc = "getMetadata"
  /\ IF key \notin DOMAIN store
     THEN PostAdminCheck(r, req.total)
     ELSE IF req.k < Len(req.keys)
     THEN /\ reqs' = [reqs EXCEPT ![r].k = req.k + 1,
                                  ![r].total = req.total + store[key].size]
          /\ UNCHANGED <<uuidCount, last>>
     ELSE PostAdminCheck(r, req.total + store[key].size)
  /\ UNCHANGED <<variant, store, mediaFiles, deletedIds>>

\* GET, up to `await bucket.getFiles(...)`
GetAdminStart(r) ==
  /\ variant = "admin" /\ Takes(r) /\ CanRun(r)
  /\ reqs' = [reqs EXCEPT ![r] = [NoReq EXCEPT !.op = "GET", !.pc = "getFiles"]]
  /\ UNCHANGED <<variant, store, mediaFiles, uuidCount, last, deletedIds>>

\* getFiles resolves; mediaFiles = []; the loop awaits the first getMetadata
GetAdminFiles(r) ==
  LET keys == Listing(DOMAIN store) IN
  /\ variant = "admin" /\ CanRun(r)
  /\ reqs[r].op = "GET" /\ reqs[r].pc = "getFiles"
  /\ mediaFiles' = <<>>
  /\ IF keys = <<>>
     THEN /\ reqs' = [reqs EXCEPT ![r] = Answered(reqs[r], 200)]
          /\ last' = Response("GET", 200, "", 0)
     ELSE /\ reqs' = [reqs EXCEPT ![r].pc = "getMetadata", ![r].keys = keys, ![r].k = 1]
          /\ UNCHANGED last
  /\ UNCHANGED <<variant, store, uuidCount, deletedIds>>

\* getMetadata of the k-th listed object resolves: its record is pushed onto
\* whatever mediaFiles is now, and after the last one mediaFiles is sent
GetAdminMetadata(r) ==
  LET req == reqs[r]
      key == req.keys[req.k]
  IN
  /\ variant = "admin" /\ CanRun(r)
  /\ req.op = "GET" /\ req.pc = "getMetadata"
  /\ IF key \notin DOMAIN store
     THEN /\ reqs' = [reqs EXCEPT ![r] = Answered(req, 500)]
          /\ last' = Response("GET", 500, "Failed to fetch media", 0)
          /\ UNCHANGED <<mediaFiles, uuidCount>>
     ELSE /\ uuidCount < UuidLimit
          /\ uuidCount' = uuidCount + 1
          /\ mediaFiles' =
               Append(mediaFiles, ListedRecord(store, req.keys, req.k, uuidCount + 1 - req.k))
          /\ IF req.k < Len(req.keys)
             THEN /\ reqs' = [reqs EXCEPT ![r].k = req.k + 1]
                  /\ UNCHANGED last
             ELSE /\ reqs' = [reqs EXCEPT ![r] = Answered(req, 200)]
                  /\ last' = Response("GET", 200, "", 0)
  /\ UNCHANGED <<variant, store, deletedIds>>

\* DELETE, up to `await bucket.file(firebasePath).delete()`
DeleteAdminFind(r, id) ==
  LET fileIndex == FindIndex(mediaFiles, id) IN
  /\ variant = "admin" /\ Takes(r) /\ CanRun(r)
  /\ IF fileIndex = 0
     THEN /\ reqs' = [reqs EXCEPT ![r] = Answered([NoReq EXCEPT !.op = "DELETE"], 404)]
          /\ last' = Response("DELETE", 404, "File not found", 0)
     ELSE /\ reqs' = [reqs EXCEPT ![r] =
                        [NoReq EXCEPT !.op = "DELETE", !.pc = "delete", !.id = id,
                                      !.fileIndex = fileIndex,
                                      !.key = firebasePath(mediaFiles[fileIndex].url)]]
          /\ UNCHANGED last
  /\ UNCHANGED <<variant, store, mediaFiles, uuidCount, deletedIds>>

\* Array.prototype.splice(i, 1): the element at position i, if there is one,
\* is removed
splice(files, i) ==
  IF i > Len(files) THEN files
  ELSE [j \in 1..(Len(files) - 1) |-> IF j < i THEN files[j] ELSE files[j + 1]]

\* the delete resolves or rejects; after it the splice at the position found
\* before the await, and the answer
DeleteAdminDelete(r) ==
  LET req == reqs[r] IN
  /\ variant = "admin" /\ CanRun(r)
  /\ req.op = "DELETE" /\ req.pc = "delete"
  /\ IF req.key \notin DOMAIN store
     THEN /\ reqs' = [reqs EXCEPT ![r] = Answered(req, 500)]
          /\ last' = Response("DELETE", 500, "Failed to delete file", 0)
          /\ UNCHANGED <<store, mediaFiles>>
     ELSE /\ store' = StoreRemove(store, req.key)
          /\ mediaFiles' = splice(mediaFiles, req.fileIndex)
          /\ reqs' = [reqs EXCEPT ![r] = Answered(req, 200)]
          /\ last' = Response("DELETE", 200, "File deleted", 0)
  /\ UNCHANGED <<variant, uuidCount, deletedIds>>

\* the firebase-admin service right after its start: an empty index over
\* whatever the bucket holds
InitAdminList ==
  /\ variant = "admin"
  /\ store \in InitStores
  /\ mediaFiles = <<>>
  /\ uuidCount = StartUuid
  /\ last = Response("init", 0, "", 0)
  /\ deletedIds = {}
  /\ reqs = [r \in Slots |-> NoReq]

NextAdminList ==
  \/ \E r \in Slots : PostAdminStart(r, FILE_SIZE_LIMIT)
  \/ \E r \in Slots : PostAdminFiles(r)
  \/ \E r \in Slots : PostAdminMetadata(r)
  \/ \E r \in Slots : GetAdminStart(r)
  \/ \E r \in Slots : GetAdminFiles(r)
  \/ \E r \in Slots : GetAdminMetadata(r)

SpecAdminList == InitAdminList /\ [][NextAdminList]_vars

\* the firebase-admin service after a GET listed the n objects of the bucket
InitAdminListed ==
  \E n \in 1..MaxAdminObjects :
    /\ variant = "admin"
    /\ store = [k \in 1..n |-> [size |-> FILE_SIZE_LIMIT, contentType |-> "image/jpeg"]]
    /\ mediaFiles = [j \in 1..n |-> ListedRecord(store, Listing(DOMAIN store), j, n)]
    /\ uuidCount = StartUuid
    /\ last = Response("GET", 200, "", 0)
    /\ deletedIds = {}
    /\ reqs = [r \in Slots |-> NoReq]

NextAdminDelete ==
  \/ \E r \in Slots : \E id \in RequestIds(mediaFiles) : DeleteAdminFind(r, id)
  \/ \E r \in Slots : DeleteAdminDelete(r)
  \/ \E r \in Slots : GetAdminStart(r)
  \/ \E r \in Slots : GetAdminFiles(r)
  \/ \E r \in Slots : GetAdminMetadata(r)

SpecAdminDelete == InitAdminListed /\ [][NextAdminDelete]_vars

(***************************************************************************)
(* PUT /api/media/:id, statement by statement, among concurrent requests   *)
(* of the local-disk variant.                                              *)
(***************************************************************************)
\* the handler from its start to the end of the forEach (or to its answer,
\* when the patch does not lead into the clearing branch)
PutFind(r, id, body) ==
  LET i == FindIndex(mediaFiles, id)
      named == IF Truthy(body.name)
               THEN [mediaFiles EXCEPT ![i].name = body.name] ELSE mediaFiles
      placed == IF body.platformId # Undefined
                THEN [named EXCEPT ![i].platformId = body.platformId] ELSE named
  IN
  /\ Takes(r) /\ CanRun(r)
  /\ IF i = 0
     THEN /\ reqs' = [reqs EXCEPT ![r] = Answered([NoReq EXCEPT !.op = "PUT"], 404)]
          /\ last' = Response("PUT", 404, "File not found", 0)
          /\ UNCHANGED mediaFiles
     ELSE IF body.isThumbnail # Undefined
             /\ Truthy(body.isThumbnail) /\ Truthy(body.platformId)
     THEN /\ mediaFiles' =
               [j \in 1..Len(placed) |->
                  IF placed[j].platformId = body.platformId /\ placed[j].id # id
                  THEN [placed[j] EXCEPT !.isThumbnail = FALSE]
                  ELSE placed[j]]
          /\ reqs' = [reqs EXCEPT ![r] =
                        [NoReq EXCEPT !.op = "PUT", !.pc = afterForEach,
                                      !.id = id, !.body = body]]
          /\ UNCHANGED last
     ELSE /\ mediaFiles' = updateMedia(mediaFiles, i, body)
          /\ reqs' = [reqs EXCEPT ![r] = Answered([NoReq EXCEPT !.op = "PUT", !.id = id], 200)]
          /\ last' = Response("PUT", 200, "", 0)
  /\ UNCHANGED <<variant, store, uuidCount, deletedIds>>

\* `file.isThumbnail = true; res.json(file)`: `file` is the object found at
\* the start, whether or not it still is in mediaFiles
PutSet(r) ==
  LET req == reqs[r]
      i == FindIndex(mediaFiles, req.id)
  IN
  /\ CanRun(r)
  /\ req.op = "PUT" /\ req.pc \notin {"idle", "done"}
  /\ mediaFiles' = IF i = 0 THEN mediaFiles
                   ELSE [mediaFiles EXCEPT ![i].isThumbnail = TRUE]
  /\ reqs' = [reqs EXCEPT ![r] = Answered(req, 200)]
  /\ last' = Response("PUT", 200, "", 0)
  /\ UNCHANGED <<variant, store, uuidCount, deletedIds>>

\* the patches the concurrent specification draws from: the hand-over of the
\* thumbnail of P1, and the removal of a flag
PutBodiesConc ==
  {[name |-> Undefined, platformId |-> "P1", isThumbnail |-> JTrue],
   [name |-> Undefined, platformId |-> Undefined, isThumbnail |-> JFalse]}

\* GET: the index is sent as it is
GetLocalSend(r) ==
  /\ variant = "local" /\ Takes(r) /\ CanRun(r)
  /\ reqs' = [reqs EXCEPT ![r] = Answered([NoReq EXCEPT !.op = "GET"], 200)]
  /\ last' = Response("GET", 200, "", 0)
  /\ UNCHANGED <<variant, store, mediaFiles, uuidCount, deletedIds>>

NextPut ==
  \/ \E r \in Slots : \E id \in RequestIds(mediaFiles), body \in PutBodiesConc :
       PutFind(r, id, body)
  \/ \E r \in Slots : PutSet(r)
  \/ \E r \in Slots : GetLocalSend(r)
  \/ \E r \in Slots : \E id \in RequestIds(mediaFiles) : DeleteLocalFind(r, id)
  \/ \E r \in Slots : DeleteLocalUnlink(r)
  \/ \E r \in Slots : PostLocalMulter(r, FILE_SIZE_LIMIT)
  \/ \E r \in Slots : PostLocalReaddir(r)
  \/ \E r \in Slots : PostLocalStat(r)
  \/ \E r \in Slots : PostLocalUnlink(r)

\* files an earlier process left in the upload directory
Leftovers == {0, 400 * MiB}

\* the local-disk service after n uploads of 100 MiB, admitted one after the
\* other into a directory that held `left` bytes; the uuid counter leaves
\* the two values of one more upload
InitPut ==
  \E n \in 1..MaxRecords, left \in Leftovers :
    /\ left + n * FILE_SIZE_LIMIT <= MAX_TOTAL_SIZE
    /\ variant = "local"
    /\ mediaFiles = [i \in 1..n |-> UploadedRecord(i, Undefined)]
    /\ store = [k \in {2 * i - 1 : i \in 1..n} \cup (IF left = 0 THEN {} ELSE {2 * n + 1}) |->
                  [size |-> IF k = 2 * n + 1 THEN left ELSE FILE_SIZE_LIMIT,
                   contentType |-> "image/jpeg"]]
    /\ uuidCount = UuidLimit - 2
    /\ last = Response("POST", 200, "", 2 * n)
    /\ deletedIds = {}
    /\ reqs = [r \in Slots |-> NoReq]

SpecPut == InitPut /\ [][NextPut]_vars

(***************************************************************************)
(* Properties.                                                             *)
(***************************************************************************)
\* the records of platform P that carry the thumbnail flag
Thumbnails(files, P) ==
  {i \in 1..Len(files) : files[i].platformId = P /\ files[i].isThumbnail}

\* an upload multer hands to the handler
ValidUpload(file) ==
  file.present /\ file.mimetype \in allowedTypes /\ file.size <= FILE_SIZE_LIMIT

\* the POST handler of the running variant, no store operation failing
PostOk(file, body) ==
  \/ PostLocal(file, body, "none")
  \/ PostCloudFn(file, body, "none")
  \/ PostAdmin(file, body, "none", 0)

\* the POST handler of the running variant, whatever the store does
PostAny(file, body) ==
  \/ \E fail \in LocalPostFails : PostLocal(file, body, fail)
  \/ \E fail \in CloudFnPostFails : PostCloudFn(file, body, fail)
  \/ \E fail \in AdminPostFails : \E done \in DoneFor(fail) :
       PostAdmin(file, body, fail, done)

\* C1: whatever requests were served, no platform has two records flagged
\* as its thumbnail.
C1_ThumbnailExclusivity ==
  \A P \in PlatformIds : Cardinality(Thumbnails(mediaFiles, P)) <= 1

\* C2: right after an upload that returned its record, the store holds at
\* most MAX_TOTAL_SIZE bytes.
C2_AggregateCeiling ==
  (last.op = "POST" /\ last.status = 200) => getDirSize(store) <= MAX_TOTAL_SIZE

\* C3: in the variants with a quota check (local-disk, firebase-admin) an
\* upload is answered 413 exactly when the bytes already stored plus its own
\* size exceed the ceiling.
C3_AdmissionRule ==
  [][\A file \in Files, body \in PostBodies :
       (/\ last'.op = "POST"
        /\ ValidUpload(file)
        /\ PostLocal(file, body, "none") \/ PostAdmin(file, body, "none", 0))
       => (last'.status = 413 <=> getDirSize(store) + file.size > MAX_TOTAL_SIZE)]_vars

\* C4: an upload that would push the stored bytes past the ceiling is
\* answered 413 and leaves the store and the index as they were.
C4_RejectionLeavesState ==
  [][\A file \in Files, body \in PostBodies :
       (/\ last'.op = "POST"
        /\ ValidUpload(file)
        /\ getDirSize(store) + file.size > MAX_TOTAL_SIZE
        /\ PostOk(file, body))
       => (last'.status = 413 /\ store' = store /\ mediaFiles' = mediaFiles)]_vars

\* C5: starting without any thumbnail flag, after every update no platform
\* has two records flagged as its thumbnail.
C5_ExclusivityUnderUpdates ==
  last.op = "PUT" =>
    \A P \in PlatformIds : Cardinality(Thumbnails(mediaFiles, P)) <= 1

\* C6: an update whose patch has isThumbnail = true leaves the record
\* flagged, whether or not the patch names a platform.
C6_SetThumbnail ==
  [][(last'.op = "PUT" /\ last'.status = 200) =>
       \A body \in PutBodies :
         (body.isThumbnail = JTrue /\ PutMedia(last'.id, body))
         => mediaFiles'[FindIndex(mediaFiles', last'.id)].isThumbnail]_vars

C8_MimeBeforePersistence ==
  [][\A file \in Files : \A body \in BodiesFor(file) :
       (/\ last'.op = "POST"
        /\ file.present /\ file.mimetype \notin allowedTypes
        /\ PostAny(file, body))
       => /\ store' = store
          /\ uuidCount' = uuidCount
          /\ mediaFiles' = mediaFiles
          /\ last'.status \notin {0, 200}]_vars

\* C8 happens: the local-disk service, with files on its disk, has just
\* refused an upload for its type.
C8_Witness ==
  /\ variant = "local"
  /\ last.op = "POST" /\ last.error = "Invalid file type"
  /\ DOMAIN store # {}

C10_DeleteThenList ==
  (last.op = "GET" /\ last.status = 200) =>
    \A id \in deletedIds : id \notin Ids(mediaFiles)

\* C10 happens: a non-empty list was returned after a delete was answered ok.
C10_Witness ==
  /\ last.op = "GET" /\ last.status = 200
  /\ deletedIds # {}
  /\ mediaFiles # <<>>

\* C11: when the store fails while the usage is computed for an upload
\* (getDirSize in local-disk, getFiles or getMetadata inside getTotalSize in
\* firebase-admin), the upload is answered with an error, nothing is written
\* and no record is added.
C11_AdmissionErrorsSurface ==
  [][\A file \in Files : \A body \in BodiesFor(file) :
       (/\ last'.op = "POST"
        /\ ValidUpload(file)
        /\ \/ PostLocal(file, body, "getDirSize")
           \/ \E done \in DoneFor("getTotalSize") :
                PostAdmin(file, body, "getTotalSize", done))
       => /\ last'.status \notin {0, 200}
          /\ store' = store
          /\ mediaFiles' = mediaFiles]_vars

\* C12: an upload that is answered with an error leaves the objects of the
\* store and the index as they were before the request.
C12_RollbackOnError ==
  [][\A file \in Files : \A body \in BodiesFor(file) :
       (/\ last'.op = "POST" /\ last'.status \notin {0, 200}
        /\ PostAny(file, body))
       => /\ store' = store
          /\ mediaFiles' = mediaFiles]_vars

\* C16: no file of an upload is in the store while the upload's quota check
\* has not passed.
C16_NoWriteBeforeAdmission ==
  \A r \in Slots :
    (reqs[r].op = "POST" /\ reqs[r].pc \in {"readdir", "stat", "unlink"})
    => reqs[r].key \notin DOMAIN store

\* C17: every upload multer handed to the handler is answered in the end,
\* whatever the other requests do meanwhile.
C17_UploadTerminates ==
  \A r \in Slots :
    (reqs[r].op = "POST" /\ reqs[r].pc = "readdir")
    ~> (reqs[r].op = "POST" /\ reqs[r].pc = "done")

\* C20: whenever no upload is in flight, the upload directory holds at most
\* MAX_TOTAL_SIZE bytes and every file in it is the file of exactly one
\* record of the index.
C20_HardCeilingAtRest ==
  (\A r \in Slots : reqs[r].op = "POST" => reqs[r].pc = "done")
  => /\ getDirSize(store) <= MAX_TOTAL_SIZE
     /\ \A key \in DOMAIN store :
          Cardinality({i \in 1..Len(mediaFiles) : basename(mediaFiles[i].url) = key}) = 1

\* the stored object the record of a cloud variant points at
ObjectOf(f) == firebasePath(f.url)

\* C13: a delete of an unknown id is answered 404 and changes nothing; a
\* delete whose store removal fails is answered with an error and leaves the
\* index as it was; and a delete takes no record out of the index whose
\* stored object still exists.
C13_DeleteContract ==
  [][/\ (reqs' = reqs /\ last'.op = "DELETE" /\ last'.status = 404)
        => (store' = store /\ mediaFiles' = mediaFiles)
     /\ \A r \in Slots :
          (reqs[r].op = "DELETE" /\ reqs[r].pc = "delete" /\ reqs'[r].pc = "idle")
          => /\ last'.op = "DELETE"
             /\ last'.status # 200 => (store' = store /\ mediaFiles' = mediaFiles)
             /\ \A i \in 1..Len(mediaFiles) :
                  mediaFiles[i].id \notin Ids(mediaFiles')
                  => ObjectOf(mediaFiles[i]) \notin DOMAIN store']_vars

\* C14: while a PUT is between the clearing of the other thumbnails and the
\* setting of its own record's flag, the only step any handler takes is that
\* setting; after it the record is the one thumbnail of its platform.
C14_AtomicClearAndSet ==
  [][\A r \in Slots :
       (reqs[r].op = "PUT" /\ reqs[r].pc \notin {"idle", "done"})
       => /\ reqs'[r].pc = "idle"
          /\ \A q \in Slots \ {r} : reqs'[q] = reqs[q]
          /\ reqs[r].id \in Ids(mediaFiles')
          /\ \A j \in 1..Len(mediaFiles') :
               mediaFiles'[j].platformId = reqs[r].body.platformId
               => (mediaFiles'[j].isThumbnail <=> mediaFiles'[j].id = reqs[r].id)]_vars

\* C14 happens: a PUT has cleared the thumbnail of another record of its
\* platform and not yet set its own, while another request is suspended at
\* an await.
C14_Witness ==
  \E r, q \in Slots :
    /\ reqs[r].op = "PUT" /\ reqs[r].pc = "cleared"
    /\ reqs[q].pc \in {"readdir", "stat", "unlink"}
    /\ \E j \in 1..Len(mediaFiles) :
         /\ mediaFiles[j].platformId = reqs[r].body.platformId
         /\ mediaFiles[j].id # reqs[r].id
    /\ Thumbnails(mediaFiles, reqs[r].body.platformId) = {}

\* C15: two uploads that each fit under the ceiling and together do not,
\* and that both passed the quota check on the same usage, end with both
\* objects in the bucket and the bucket above the ceiling.
C15_QuotaRace ==
  \A r, q \in Slots :
    (/\ r # q
     /\ reqs[r].op = "POST" /\ reqs[r].pc = "done" /\ reqs[r].status # 413
     /\ reqs[q].op = "POST" /\ reqs[q].pc = "done" /\ reqs[q].status # 413
     /\ reqs[r].total = reqs[q].total
     /\ reqs[r].total + 2 * FILE_SIZE_LIMIT > MAX_TOTAL_SIZE)
    => /\ reqs[r].key \in DOMAIN store
       /\ reqs[q].key \in DOMAIN store
       /\ getDirSize(store) > MAX_TOTAL_SIZE

\* C18: a delete that is answered ok takes out of the index the record with
\* its id and no other record.
C18_DeleteRemovesItsRecord ==
  [][\A r \in Slots :
       (/\ reqs[r].op = "DELETE" /\ reqs[r].pc = "delete"
        /\ reqs'[r].pc = "idle" /\ last'.status = 200)
       => mediaFiles' = SelectSeq(mediaFiles, LAMBDA f : f.id # reqs[r].id)]_vars

\* no two records point at the same object, and every record points at an
\* object of the store
OnePerObject(files, st) ==
  /\ \A i, j \in 1..Len(files) : i # j => files[i].url # files[j].url
  /\ \A i \in 1..Len(files) : ObjectOf(files[i]) \in DOMAIN st

\* C19: the index a list request sends, and the index once every request
\* was answered, holds one record per stored object at most and none for an
\* object that is not stored.
C19_OneRecordPerObject ==
  [][(\/ \E r \in Slots : /\ reqs[r].op = "GET" /\ reqs[r].pc # "idle"
                          /\ reqs'[r].pc = "idle" /\ last'.status = 200
      \/ \A r \in Slots : Free(r)')
     => OnePerObject(mediaFiles', store')]_vars

====
